---- MODULE Spec2Model ----
(***************************************************************************)
(* A model of the blog application in api/index.py and api/forms.py: the   *)
(* three tables (users, blog_posts, comments), the flask-login session of  *)
(* each client, and one action per route handler.  Every handler runs in   *)
(* one step except register, whose e-mail lookup (index.py:119) and        *)
(* insert/commit (index.py:124-126) are two steps, so that two requests    *)
(* can interleave as they do under a multi-worker server.                  *)
(***************************************************************************)
EXTENDS Integers, Sequences, FiniteSets, TLC

VARIABLES
    users,      \* the users table, rows in insertion order (index.py:36-43)
    posts,      \* the blog_posts table (index.py:47-58)
    comments,   \* the comments table (index.py:62-69); no handler writes it
    session,    \* per client, the user id flask-login keeps in the session; 0 is none
    pending,    \* per client, the sign-up form of a register request between
                \* its e-mail lookup and its commit
    last        \* the latest request handled and what was returned for it

vars == <<users, posts, comments, session, pending, last>>

----------------------------------------------------------------------------
(* Bounds of the model *)

MaxUsers == 2

MaxPostId == 2

(* Program constants *)

PasswordMin == 7

PasswordMax == 25

AdminId == 1

----------------------------------------------------------------------------
(* The clients and the inputs they submit *)

Clients == {"c1", "c2"}

Emails == {"a@x.com", "b@x.com"}

Passwords == {"hunter22", "letmein1"}

(* The salts generate_password_hash may draw *)
Salts == {"s1"}

Titles == {"Hello", "World"}

Today == "11/03/2026"

Methods == {"GET", "POST"}

Categories == {"Tech", "Bogus"}

(* The form a GET carries: no data at all *)
EmptyRegisterForm == [name |-> "", email |-> "", password |-> ""]

EmptyLoginForm == [email |-> "", password |-> ""]

EmptyPostForm == [title |-> "", subtitle |-> "", genre |-> "", img_url |-> "", body |-> ""]

NoForm == [none |-> ""]

(* Two sign-ups that validate and one whose password is too short *)
RegisterSubmissions ==
    {[name |-> "Ann", email |-> "a@x.com", password |-> "hunter22"],
     [name |-> "Bob", email |-> "b@x.com", password |-> "letmein1"],
     [name |-> "Ann", email |-> "a@x.com", password |-> "short"]}

LoginSubmissions ==
    [email : Emails, password : Passwords]
        \cup {[email |-> "a@x.com", password |-> ""]}

PostSubmissions ==
    {[title |-> t, subtitle |-> "sub", genre |-> "Tech",
      img_url |-> "https://x.io/a.png", body |-> "text"] : t \in Titles}
        \cup {[title |-> "Hello", subtitle |-> "sub", genre |-> "Tech",
               img_url |-> "not a url", body |-> "text"]}

PostIds == 1..MaxPostId

----------------------------------------------------------------------------
(* forms.py: the validators *)

DataRequired(s) == s # ""

Length(s, min, max) == Len(s) >= min /\ Len(s) <= max

(* wtforms' URL() is a regular expression; of the strings submitted here   *)
(* it accepts exactly those with a scheme and a host.                      *)
URL(s) == s \in {"https://x.io/a.png"}

GenreChoices == {"Tech", "Education", "Entertainment", "Random Thoughts"}

CreatePostForm(f) ==
    /\ DataRequired(f.title)
    /\ DataRequired(f.subtitle)
    /\ DataRequired(f.genre) /\ f.genre \in GenreChoices
    /\ DataRequired(f.img_url) /\ URL(f.img_url)
    /\ DataRequired(f.body)

RegisterForm(f) ==
    /\ DataRequired(f.name)
    /\ DataRequired(f.email)
    /\ DataRequired(f.password) /\ Length(f.password, PasswordMin, PasswordMax)

LoginForm(f) ==
    /\ DataRequired(f.email)
    /\ DataRequired(f.password)

(* FlaskForm.validate_on_submit: the request is a submission and validates *)
validate_on_submit(method, valid) == method = "POST" /\ valid

----------------------------------------------------------------------------
(* werkzeug.security as index.py uses it: the stored credential embeds the *)
(* method and the salt, and the digest is a function of salt and password. *)

Digest(salt, password) == <<"PBKDF2-HMAC-SHA256", salt, password>>

generate_password_hash(password, salt) ==
    [method |-> "pbkdf2:sha256", salt |-> salt, digest |-> Digest(salt, password)]

check_password_hash(pwhash, password) ==
    pwhash.digest = Digest(pwhash.salt, password)

----------------------------------------------------------------------------
(* The tables *)

NoUser == [id |-> 0, name |-> "", email |-> "",
           password |-> [method |-> "", salt |-> "", digest |-> <<>>]]

NoPost == [id |-> 0, title |-> "", subtitle |-> "", date |-> "", body |-> "",
           img_url |-> "", author_id |-> 0, genre |-> ""]

UserRows == {users[i] : i \in DOMAIN users}

Max(S) == CHOOSE m \in S : \A x \in S : x <= m

Min(S) == CHOOSE m \in S : \A x \in S : m <= x

(* A key generator that hands out the largest id again *)
NextId_reuses_largest(ids) == IF ids = {} THEN 1 ELSE Max(ids)

(* An INTEGER PRIMARY KEY left unset: one more than the largest id there   *)
NextId(ids) == IF ids = {} THEN 1 ELSE Max(ids) + 1

(* User.query.get(user_id) *)
UserGet(user_id) ==
    IF \E u \in UserRows : u.id = user_id
    THEN CHOOSE u \in UserRows : u.id = user_id
    ELSE NoUser

(* User.query.filter_by(email=...).first(): the earliest row that matches  *)
UserFirstByEmail(email) ==
    LET hits == {i \in DOMAIN users : users[i].email = email}
    IN  IF hits = {} THEN NoUser ELSE users[Min(hits)]

(* BlogPost.query.get(post_id) *)
PostGet(post_id) ==
    IF \E p \in posts : p.id = post_id
    THEN CHOOSE p \in posts : p.id = post_id
    ELSE NoPost

----------------------------------------------------------------------------
(* flask-login *)

AnonymousUser == [is_authenticated |-> FALSE]

load_user(user_id) == UserGet(user_id)

(* current_user: the user the session's id loads, else the anonymous one   *)
current_user(c) ==
    IF session[c] = 0 \/ load_user(session[c]) = NoUser
    THEN AnonymousUser
    ELSE [is_authenticated |-> TRUE, id |-> load_user(session[c]).id]

login_user(c, user) == [session EXCEPT ![c] = user.id]

logout_user(c) == [session EXCEPT ![c] = 0]

----------------------------------------------------------------------------
(* What the latest request was and what it returned.  status 0 marks a    *)
(* request whose handler has not returned yet; post is the record handed   *)
(* to the template (NoPost for Python's None).                             *)

Response(c, route, method, form, post_id, category, status, target, flash, error, ran, post) ==
    [client |-> c, route |-> route, method |-> method, form |-> form,
     post_id |-> post_id, category |-> category,
     status |-> status, target |-> target, flash |-> flash, error |-> error,
     ran |-> ran, post |-> post]

NoPending == EmptyRegisterForm

Init ==
    /\ users = <<>>
    /\ posts = {}
    /\ comments = {}
    /\ session = [c \in Clients |-> 0]
    /\ pending = [c \in Clients |-> NoPending]
    /\ last = Response("", "", "", NoForm, 0, "", 0, "", "", "", FALSE, NoPost)

----------------------------------------------------------------------------
(* index.py:78-88.  TRUE when the wrapper calls the wrapped function; in   *)
(* every other case it aborts with 403: the id differs, or current_user is *)
(* the anonymous user, which has no id (the AttributeError it catches).    *)

(* The guard with the id test dropped: any logged-in user passes *)
admin_only_any_user(c) ==
    LET u == current_user(c)
    IN  "id" \in DOMAIN u

admin_only(c) ==
    LET u == current_user(c)
    IN  IF "id" \in DOMAIN u THEN u.id = AdminId ELSE FALSE

abort403(c, route, method, form, post_id) ==
    /\ last' = Response(c, route, method, form, post_id, "", 403, "", "", "", FALSE, NoPost)
    /\ UNCHANGED <<users, posts, comments, session, pending>>

----------------------------------------------------------------------------
(* The route handlers *)

home(c, method) ==
    /\ last' = Response(c, "home", method, NoForm, 0, "", 200, "index.html", "", "", TRUE, NoPost)
    /\ UNCHANGED <<users, posts, comments, session, pending>>

(* register with the e-mail lookup dropped *)
register_lookup_unchecked(c, method, form) ==
    /\ pending[c] = NoPending
    /\ IF validate_on_submit(method, RegisterForm(form))
       THEN /\ Len(users) + Cardinality({d \in Clients : pending[d] # NoPending}) < MaxUsers
            /\ pending' = [pending EXCEPT ![c] = form]
            /\ last' = Response(c, "register", method, form, 0, "", 0, "", "", "", TRUE, NoPost)
       ELSE /\ pending' = pending
            /\ last' = Response(c, "register", method, form, 0, "", 200, "register.html", "", "", TRUE, NoPost)
    /\ UNCHANGED <<users, posts, comments, session>>

(* index.py:115-119 and 128-135: validation and the e-mail lookup *)
register_lookup(c, method, form) ==
    /\ pending[c] = NoPending
    /\ IF validate_on_submit(method, RegisterForm(form))
       THEN IF UserFirstByEmail(form.email) = NoUser
            THEN /\ Len(users) + Cardinality({d \in Clients : pending[d] # NoPending}) < MaxUsers
                 /\ pending' = [pending EXCEPT ![c] = form]
                 /\ last' = Response(c, "register", method, form, 0, "", 0, "", "", "", TRUE, NoPost)
            ELSE /\ pending' = pending
                 /\ last' = Response(c, "register", method, form, 0, "", 302, "login",
                                     "This email is already registered in our database. Try logging in instead.",
                                     "", TRUE, NoPost)
       ELSE /\ pending' = pending
            /\ last' = Response(c, "register", method, form, 0, "", 200, "register.html", "", "", TRUE, NoPost)
    /\ UNCHANGED <<users, posts, comments, session>>

(* register with login_user(new_user) dropped *)
register_commit_no_login(c, salt) ==
    /\ pending[c] # NoPending
    /\ LET form == pending[c]
           new_user == [id |-> NextId({u.id : u \in UserRows}),
                        name |-> form.name,
                        email |-> form.email,
                        password |-> generate_password_hash(form.password, salt)]
       IN  /\ users' = Append(users, new_user)
           /\ session' = session
           /\ last' = Response(c, "register", "POST", form, 0, "", 302, "home", "", "", TRUE, NoPost)
    /\ pending' = [pending EXCEPT ![c] = NoPending]
    /\ UNCHANGED <<posts, comments>>

(* index.py:120-127: hash, insert, commit, log the new user in *)
register_commit(c, salt) ==
    /\ pending[c] # NoPending
    /\ LET form == pending[c]
           new_user == [id |-> NextId({u.id : u \in UserRows}),
                        name |-> form.name,
                        email |-> form.email,
                        password |-> generate_password_hash(form.password, salt)]
       IN  /\ users' = Append(users, new_user)
           /\ session' = login_user(c, new_user)
           /\ last' = Response(c, "register", "POST", form, 0, "", 302, "home", "", "", TRUE, NoPost)
    /\ pending' = [pending EXCEPT ![c] = NoPending]
    /\ UNCHANGED <<posts, comments>>

(* login with the check_password_hash test dropped *)
login_no_password_check(c, method, form) ==
    /\ IF validate_on_submit(method, LoginForm(form))
       THEN LET user == UserFirstByEmail(form.email)
            IN  IF user # NoUser
                THEN /\ session' = login_user(c, user)
                     /\ last' = Response(c, "login", method, form, 0, "", 302, "home", "", "", TRUE, NoPost)
                ELSE /\ session' = session
                     /\ last' = Response(c, "login", method, form, 0, "", 200, "login.html",
                                         "There is no account for that user", "", TRUE, NoPost)
       ELSE /\ session' = session
            /\ last' = Response(c, "login", method, form, 0, "", 200, "login.html", "", "", TRUE, NoPost)
    /\ UNCHANGED <<users, posts, comments, pending>>

login(c, method, form) ==
    /\ IF validate_on_submit(method, LoginForm(form))
       THEN LET user == UserFirstByEmail(form.email)
            IN  IF user # NoUser
                THEN IF check_password_hash(user.password, form.password)
                     THEN /\ session' = login_user(c, user)
                          /\ last' = Response(c, "login", method, form, 0, "", 302, "home", "", "", TRUE, NoPost)
                     ELSE /\ session' = session
                          /\ last' = Response(c, "login", method, form, 0, "", 200, "login.html",
                                              "Incorrect password. Try again", "", TRUE, NoPost)
                ELSE /\ session' = session
                     /\ last' = Response(c, "login", method, form, 0, "", 200, "login.html",
                                         "There is no account for that user", "", TRUE, NoPost)
       ELSE /\ session' = session
            /\ last' = Response(c, "login", method, form, 0, "", 200, "login.html", "", "", TRUE, NoPost)
    /\ UNCHANGED <<users, posts, comments, pending>>

(* logout with logout_user() dropped *)
logout_keeps_session(c) ==
    /\ session' = session
    /\ last' = Response(c, "logout", "GET", NoForm, 0, "", 302, "home", "", "", TRUE, NoPost)
    /\ UNCHANGED <<users, posts, comments, pending>>

logout(c) ==
    /\ session' = logout_user(c)
    /\ last' = Response(c, "logout", "GET", NoForm, 0, "", 302, "home", "", "", TRUE, NoPost)
    /\ UNCHANGED <<users, posts, comments, pending>>

new_post(c, method, form) ==
    IF ~admin_only(c)
    THEN abort403(c, "new_post", method, form, 0)
    ELSE /\ IF validate_on_submit(method, CreatePostForm(form))
            THEN IF \E p \in posts : p.title = form.title
                 THEN \* title is unique=True: the commit raises IntegrityError
                      /\ posts' = posts
                      /\ last' = Response(c, "new_post", method, form, 0, "", 500, "", "",
                                          "IntegrityError", TRUE, NoPost)
                 ELSE LET post == [id |-> NextId({p.id : p \in posts}),
                                   title |-> form.title,
                                   subtitle |-> form.subtitle,
                                   date |-> Today,
                                   body |-> form.body,
                                   img_url |-> form.img_url,
                                   author_id |-> 0,
                                   genre |-> form.genre]
                      IN  /\ post.id <= MaxPostId
                          /\ posts' = posts \cup {post}
                          /\ last' = Response(c, "new_post", method, form, 0, "", 302, "home",
                                              "", "", TRUE, NoPost)
            ELSE /\ posts' = posts
                 /\ last' = Response(c, "new_post", method, form, 0, "", 200, "make-post.html",
                                     "", "", TRUE, NoPost)
         /\ UNCHANGED <<users, comments, session, pending>>

delete_post(c, post_id) ==
    IF ~admin_only(c)
    THEN abort403(c, "delete_post", "GET", NoForm, post_id)
    ELSE LET post_to_delete == PostGet(post_id)
         IN  /\ IF post_to_delete = NoPost
                THEN \* db.session.delete(None) raises UnmappedInstanceError, which is
                     \* no AttributeError: the guard's except clause lets it through
                     /\ posts' = posts
                     /\ comments' = comments
                     /\ last' = Response(c, "delete_post", "GET", NoForm, post_id, "", 500, "", "",
                                         "UnmappedInstanceError", TRUE, NoPost)
                ELSE /\ posts' = posts \ {post_to_delete}
                     /\ comments' = {IF cm.post_id = post_id THEN [cm EXCEPT !.post_id = 0] ELSE cm
                                        : cm \in comments}
                     /\ last' = Response(c, "delete_post", "GET", NoForm, post_id, "", 302, "home",
                                         "", "", TRUE, NoPost)
             /\ UNCHANGED <<users, session, pending>>

show_post(c, post_id) ==
    /\ last' = Response(c, "show_post", "GET", NoForm, post_id, "", 200, "post.html", "", "",
                        TRUE, PostGet(post_id))
    /\ UNCHANGED <<users, posts, comments, session, pending>>

CategoryPics == {"Random Thoughts", "Entertainment", "Technology", "Education"}

post_category(c, category) ==
    /\ LET category_name == IF category = "Tech" THEN "Technology" ELSE category
       IN  IF category_name \in CategoryPics
           THEN last' = Response(c, "post_category", "GET", NoForm, 0, category, 200,
                                 "post_category.html", "", "", TRUE, NoPost)
           ELSE \* category_pics[category_name] raises KeyError
                last' = Response(c, "post_category", "GET", NoForm, 0, category, 500,
                                 "", "", "KeyError", TRUE, NoPost)
    /\ UNCHANGED <<users, posts, comments, session, pending>>

----------------------------------------------------------------------------

Next ==
    \E c \in Clients :
        \/ \E m \in Methods : home(c, m)
        \/ register_lookup(c, "GET", EmptyRegisterForm)
        \/ \E f \in RegisterSubmissions : register_lookup(c, "POST", f)
        \/ \E s \in Salts : register_commit(c, s)
        \/ login(c, "GET", EmptyLoginForm)
        \/ \E f \in LoginSubmissions : login(c, "POST", f)
        \/ logout(c)
        \/ new_post(c, "GET", EmptyPostForm)
        \/ \E f \in PostSubmissions : new_post(c, "POST", f)
        \/ \E i \in PostIds : delete_post(c, i)
        \/ \E i \in PostIds : show_post(c, i)
        \/ \E g \in Categories : post_category(c, g)

Spec == Init /\ [][Next]_vars

----------------------------------------------------------------------------
(* Properties.  Every action sets last to its own request, so in a step    *)
(* last' is the request that step handles, and the unprimed variables are  *)
(* the store and the sessions the request found.                           *)

AdminRoutes == {"new_post", "delete_post"}

EmailHeld(email) == \E i \in DOMAIN users : users[i].email = email

(* The plain-text passwords a stored credential verifies *)
Opens(pwhash) == {p \in Passwords \cup {"short", ""} : check_password_hash(pwhash, p)}

(* C1: a request to /new-post or /delete/<post_id> from a client that is   *)
(* anonymous, or logged in as a user whose id is not 1, is answered 403,   *)
(* the wrapped handler body does not run, and users, posts and comments    *)
(* are what they were before the request.                                  *)
C1_GuardRefuses ==
    [][ (/\ last'.route \in AdminRoutes
         /\ ~(\E u \in UserRows : u.id = session[last'.client] /\ u.id = 1))
        => (/\ last'.status = 403
            /\ ~last'.ran
            /\ users' = users
            /\ posts' = posts
            /\ comments' = comments) ]_vars

(* A logged-in user other than the admin was refused while a post existed *)
C1_Witness ==
    /\ last.route = "delete_post"
    /\ last.status = 403
    /\ session[last.client] = 2
    /\ \E p \in posts : p.id = last.post_id

(* C2: a login submission (email, password) starts a session, bound to the *)
(* user stored under that email, exactly when that user exists and its     *)
(* stored credential verifies the password; otherwise no session starts    *)
(* and every client's session is what it was.                              *)
C2_LoginIffVerified ==
    [][ (last'.route = "login" /\ last'.method = "POST")
        => LET c == last'.client
               held == {i \in DOMAIN users : users[i].email = last'.form.email}
           IN  IF /\ held # {}
                  /\ check_password_hash(users[Min(held)].password, last'.form.password)
               THEN /\ last'.status = 302
                    /\ last'.target = "home"
                    /\ session' = [session EXCEPT ![c] = users[Min(held)].id]
               ELSE /\ last'.status = 200
                    /\ session' = session ]_vars

(* The second user logged in through /login with the right password *)
C2_Witness ==
    /\ last.route = "login"
    /\ last.status = 302
    /\ Len(users) >= 2
    /\ last.form.email = users[2].email
    /\ session[last.client] = users[2].id

(* C3: a valid registration submission whose email no user holds goes on   *)
(* to the insert; the insert adds exactly one User carrying the submitted  *)
(* name and email and a pbkdf2 credential that verifies the submitted      *)
(* password and no other, leaves the users already stored as they were,    *)
(* and the client's session is that new user's when the request returns.   *)
C3_RegisterCreatesOne ==
    [][ LET c == last'.client
        IN  /\ (/\ last'.route = "register"
                /\ last'.method = "POST"
                /\ pending[c] = NoPending
                /\ RegisterForm(last'.form)
                /\ ~EmailHeld(last'.form.email))
               => (/\ last'.status = 0
                   /\ pending' = [pending EXCEPT ![c] = last'.form]
                   /\ users' = users)
            /\ (last'.route = "register" /\ pending[c] # NoPending)
               => LET form == pending[c]
                      new == users'[Len(users')]
                  IN  /\ Len(users') = Len(users) + 1
                      /\ SubSeq(users', 1, Len(users)) = users
                      /\ new.name = form.name
                      /\ new.email = form.email
                      /\ new.password.method = "pbkdf2:sha256"
                      /\ Opens(new.password) = {form.password}
                      /\ new.id \notin {u.id : u \in UserRows}
                      /\ session'[c] = new.id
                      /\ \E i \in DOMAIN users' : users'[i].id = session'[c]
                      /\ last'.status = 302
                      /\ last'.target = "home" ]_vars

(* A second user was registered and is the identity of the registering client *)
C3_Witness ==
    /\ last.route = "register"
    /\ last.status = 302
    /\ last.target = "home"
    /\ Len(users) = 2
    /\ last.form.email = users[2].email
    /\ session[last.client] = users[2].id

(* C4 as claimed: every registration submission whose email a user already *)
(* holds creates no User and is answered by a redirect to the login page   *)
(* with a warning message.                                                 *)
C4_AsClaimed ==
    [][ LET c == last'.client
        IN  (/\ last'.route = "register"
             /\ last'.method = "POST"
             /\ pending[c] = NoPending
             /\ EmailHeld(last'.form.email))
            => (/\ users' = users
                /\ pending'[c] = NoPending
                /\ last'.status = 302
                /\ last'.target = "login"
                /\ last'.flash # "") ]_vars

(* C4: every registration submission whose email a user already holds      *)
(* creates no User; when the submission passes the form's validation it is *)
(* answered by a redirect to the login page with a warning message.        *)
C4_DuplicateEmailRefused ==
    [][ LET c == last'.client
        IN  (/\ last'.route = "register"
             /\ last'.method = "POST"
             /\ pending[c] = NoPending
             /\ EmailHeld(last'.form.email))
            => (/\ users' = users
                /\ pending'[c] = NoPending
                /\ RegisterForm(last'.form)
                   => (/\ last'.status = 302
                       /\ last'.target = "login"
                       /\ last'.flash # "")) ]_vars

(* A valid sign-up with a held email was sent to the login page *)
C4_Witness ==
    /\ last.route = "register"
    /\ last.status = 302
    /\ last.target = "login"
    /\ last.flash # ""
    /\ RegisterForm(last.form)
    /\ EmailHeld(last.form.email)

(* C5: no two stored users have the same email, whatever the interleaving  *)
(* of register requests.                                                   *)
C5_EmailsUnique ==
    \A i, j \in DOMAIN users : i # j => users[i].email # users[j].email

(* C6: the admin's /delete/<post_id> for an id with no stored post does    *)
(* not raise, is answered normally, and leaves users, posts and comments   *)
(* as they were.                                                           *)
C6_DeleteIdempotent ==
    [][ (/\ last'.route = "delete_post"
         /\ last'.ran
         /\ ~(\E p \in posts : p.id = last'.post_id))
        => (/\ last'.error = ""
            /\ last'.status \in {200, 302, 404}
            /\ users' = users
            /\ posts' = posts
            /\ comments' = comments) ]_vars

(* C7: GET /post/<post_id> for an id with no stored post, one deleted      *)
(* before included, is answered NotFound and hands no null record on.      *)
C7_MissingPostNotFound ==
    (/\ last.route = "show_post"
     /\ ~(\E p \in posts : p.id = last.post_id))
    => (/\ last.status = 404
        /\ last.target # "post.html")

(* C8: the admin's /new-post with the title of a stored post is answered   *)
(* by a flash message and a redirect, with no fault, adds no post, and no  *)
(* two stored posts share a title.                                         *)
C8_DuplicateTitleHandled ==
    [][ /\ (/\ last'.route = "new_post"
            /\ last'.ran
            /\ last'.method = "POST"
            /\ CreatePostForm(last'.form)
            /\ \E p \in posts : p.title = last'.form.title)
           => (/\ last'.error = ""
               /\ last'.status = 302
               /\ last'.flash # ""
               /\ posts' = posts)
        /\ \A p, q \in posts' : p.title = q.title => p = q ]_vars

(* C9: a logout leaves the client anonymous; an anonymous client becomes   *)
(* authenticated only through its own login or registration that           *)
(* succeeds; and while anonymous its requests to /new-post and             *)
(* /delete/<post_id> are answered 403.                                     *)
C9_LogoutUntilLogin ==
    [][ /\ last'.route = "logout"
           => session'[last'.client] = 0
        /\ \A c \in Clients :
              (session[c] = 0 /\ session'[c] # 0)
              => (/\ last'.client = c
                  /\ last'.route \in {"login", "register"}
                  /\ last'.status = 302
                  /\ last'.target = "home")
        /\ (last'.route \in AdminRoutes /\ session[last'.client] = 0)
           => last'.status = 403 ]_vars

(* Every client is anonymous after a logout although a post exists: the    *)
(* admin who made it has logged out.                                       *)
C9_Witness ==
    /\ last.route = "logout"
    /\ posts # {}
    /\ \A c \in Clients : session[c] = 0

(* C10: no step removes a stored User or changes any of its fields, user   *)
(* ids strictly increase in registration order, the first registered user  *)
(* has id 1, and every later user is refused by the admin guard.           *)
C10_UserIdsStable ==
    [][ /\ \A i \in DOMAIN users : i \in DOMAIN users' /\ users'[i] = users[i]
        /\ \A i, j \in DOMAIN users' : i < j => users'[i].id < users'[j].id
        /\ users' # <<>> => users'[1].id = 1
        /\ (/\ last'.route \in AdminRoutes
            /\ \E i \in DOMAIN users : i > 1 /\ users[i].id = session[last'.client])
           => (last'.status = 403 /\ ~last'.ran) ]_vars

(* The second registered user, logged in, was refused on an admin route *)
C10_Witness ==
    /\ Len(users) = 2
    /\ users[1].id = 1
    /\ last.route = "new_post"
    /\ last.status = 403
    /\ session[last.client] = users[2].id

====
